---- MODULE Spec2Model ----
(***************************************************************************)
(* Model of the Socket.IO chat server: SocketManager (connection handling, *)
(* join / send / disconnect handlers, rate limiting), UserManager (the     *)
(* participant registry) and MessageStore (the bounded message log).       *)
(*                                                                         *)
(* A JavaScript string is a sequence of UTF-16 code units; the model keeps *)
(* it as a sequence of natural numbers, so that trim, toLowerCase, the     *)
(* validation patterns and the escaping are computed as the code does.     *)
(***************************************************************************)
EXTENDS Integers, Sequences, FiniteSets, TLC

(* ------------------------------------------------------------------ *)
(* Bounds of the model and program constants                          *)
(* ------------------------------------------------------------------ *)

\* ValidationConstraints (src/types/chat.ts)
NICKNAME_MIN_LENGTH == 1
NICKNAME_MAX_LENGTH == 20
MESSAGE_MIN_LENGTH == 1
MESSAGE_MAX_LENGTH == 500
RATE_LIMIT_PER_SECOND == 3
\* SocketManager.RATE_LIMIT_WINDOW_MS
RATE_LIMIT_WINDOW_MS == 1000

\* ValidationConstraints.MAX_USERS is 50 and MAX_MESSAGES is 100 in the
\* source; the registry and the log are checked with these capacities scaled
\* down, so that a full room and an eviction are within reach of the search.
MAX_USERS == 3
MAX_MESSAGES == 2

\* handleJoinRoom asks for getRecentMessages(50), half of MAX_MESSAGES; the
\* limit is scaled with the log, so that a join finds more messages in the
\* log than it is sent.
JOIN_RECENT_LIMIT == 1

\* The clock advances in steps of TickMs (milliseconds).
TickMs == 500

\* Bounds of the searches: the last clock value, and the number of
\* messages ever stored (uuid values ever drawn).
MaxTime == 500
MaxSends == 2
MaxTimeRate == 1600
MaxSendsRate == 4
MaxSendsLog == 4

\* Socket ids, in the order in which the transport hands them out.
Sockets == {"s1", "s2", "s3", "s4", "s5"}
SocketOrder == [s \in Sockets |-> CASE s = "s1" -> 1 [] s = "s2" -> 2 [] s = "s3" -> 3 [] s = "s4" -> 4 [] s = "s5" -> 5]

(* ------------------------------------------------------------------ *)
(* JavaScript string primitives                                       *)
(* ------------------------------------------------------------------ *)

\* The white space of String.prototype.trim and of the regex class \s.
IsSpace(ch) ==
    \/ ch \in {9, 10, 11, 12, 13, 32, 160, 5760, 8232, 8233, 8239, 8287, 12288, 65279}
    \/ (ch >= 8192 /\ ch <= 8202)

RECURSIVE TrimStart(_)
TrimStart(s) ==
    IF s # <<>> /\ IsSpace(Head(s)) THEN TrimStart(Tail(s)) ELSE s

RECURSIVE TrimEnd(_)
TrimEnd(s) ==
    IF s # <<>> /\ IsSpace(s[Len(s)]) THEN TrimEnd(SubSeq(s, 1, Len(s) - 1)) ELSE s

\* String.prototype.trim
Trim(s) == TrimEnd(TrimStart(s))

\* String.prototype.toLowerCase on one code unit (ASCII letters; the other
\* code units a nickname may hold have no lower-case form).
LowerChar(ch) == IF ch >= 65 /\ ch <= 90 THEN ch + 32 ELSE ch

\* String.prototype.toLowerCase
ToLowerCase(s) == [i \in 1..Len(s) |-> LowerChar(s[i])]

\* s.replace(/\s+/g, ' ')
RECURSIVE CollapseSpaces(_)
CollapseSpaces(s) ==
    IF s = <<>> THEN <<>>
    ELSE IF IsSpace(Head(s))
         THEN IF Len(s) > 1 /\ IsSpace(s[2])
              THEN CollapseSpaces(Tail(s))
              ELSE <<32>> \o CollapseSpaces(Tail(s))
         ELSE <<Head(s)>> \o CollapseSpaces(Tail(s))

\* s.replace(/c/g, rep) for a single code unit c (computed half by half, so
\* that a message of MESSAGE_MAX_LENGTH characters is within reach)
RECURSIVE ReplaceAll(_, _, _)
ReplaceAll(s, ch, rep) ==
    IF s = <<>> THEN <<>>
    ELSE IF Len(s) = 1 THEN (IF s[1] = ch THEN rep ELSE s)
    ELSE ReplaceAll(SubSeq(s, 1, Len(s) \div 2), ch, rep)
            \o ReplaceAll(SubSeq(s, Len(s) \div 2 + 1, Len(s)), ch, rep)

(* ------------------------------------------------------------------ *)
(* State                                                              *)
(* ------------------------------------------------------------------ *)

VARIABLES
    sockets,        \* transport: socket id -> "new" | "open" | "closed" | "refused"
    users,          \* UserManager.users, a Map in insertion order
    messages,       \* MessageStore.messages
    rateLimitMap,   \* SocketManager.rateLimitMap: socket id -> timestamps
    now,            \* Date.now()
    nextId,         \* number of uuids drawn so far
    emitted,        \* events emitted by the handler that ran last, in order
    last,           \* the inbound event that handler processed, with its payload
    acquired,       \* history: per live socket, the times checkRateLimit returned true
    api,            \* api/chat.ts: its users and messages, its last request and response
    heard           \* history: what the clients have been told so far

vars == <<sockets, users, messages, rateLimitMap, now, nextId, emitted, last, acquired, api, heard>>

\* The sockets the server currently holds (io.sockets).
Connected == {s \in Sockets : sockets[s] = "open"}

(* ------------------------------------------------------------------ *)
(* ErrorCodes (src/types/chat.ts)                                     *)
(* ------------------------------------------------------------------ *)

NICKNAME_TAKEN == "nickname-taken"
INVALID_NICKNAME == "invalid-nickname"
ROOM_FULL == "room-full"
INVALID_MESSAGE == "invalid-message"
RATE_LIMIT_EXCEEDED == "rate-limit-exceeded"
SERVER_ERROR == "server-error"
CONNECTION_ERROR == "connection-error"

\* No exception was thrown.
NoError == "none"

(* ------------------------------------------------------------------ *)
(* Payloads that are not strings                                      *)
(* ------------------------------------------------------------------ *)

\* The event came without a payload object (data is undefined or null):
\* reading data.nickname or data.message throws a TypeError.
MissingData == <<-1>>

\* The payload object has no such field, or a value that is no string.
MissingField == <<-2>>

\* typeof value === 'string'
IsString(value) == \A i \in 1..Len(value) : value[i] >= 0

\* The message of the TypeError thrown when a field of undefined is read.
TYPE_ERROR == "Cannot read properties of undefined"

(* ------------------------------------------------------------------ *)
(* Map<string, User> in insertion order                               *)
(* ------------------------------------------------------------------ *)

\* Map.prototype.has
MapHas(m, key) == \E i \in 1..Len(m) : m[i].id = key

\* Map.prototype.get (a record with id = "" stands for undefined)
NoUser == [id |-> "", nickname |-> <<>>, joinedAt |-> 0]
MapGet(m, key) ==
    IF MapHas(m, key) THEN m[CHOOSE i \in 1..Len(m) : m[i].id = key] ELSE NoUser

\* Map.prototype.set: an existing key keeps its place, a new key goes last
MapSet(m, key, val) ==
    IF MapHas(m, key)
    THEN [i \in 1..Len(m) |-> IF m[i].id = key THEN val ELSE m[i]]
    ELSE Append(m, val)

\* Map.prototype.delete
MapDelete(m, key) ==
    LET Other(u) == u.id # key IN SelectSeq(m, Other)

(* ------------------------------------------------------------------ *)
(* UserManager                                                        *)
(* ------------------------------------------------------------------ *)

\* The character class of validPattern.
NicknameChar(ch) ==
    \/ (ch >= 97 /\ ch <= 122)          \* a-z
    \/ (ch >= 65 /\ ch <= 90)           \* A-Z
    \/ (ch >= 48 /\ ch <= 57)           \* 0-9
    \/ (ch >= 12352 /\ ch <= 12447)     \* U+3040-U+309F
    \/ (ch >= 12448 /\ ch <= 12543)     \* U+30A0-U+30FF
    \/ (ch >= 19968 /\ ch <= 40879)     \* U+4E00-U+9FAF
    \/ (ch >= 13312 /\ ch <= 19903)     \* U+3400-U+4DBF
    \/ IsSpace(ch)                      \* \s
    \/ ch = 45                          \* -
    \/ ch = 95                          \* _

\* validateNickname: TRUE when it returns, FALSE when it throws
\* INVALID_NICKNAME.
validateNickname(nickname) ==
    LET trimmed == Trim(nickname) IN
    /\ nickname # <<>>
    /\ IsString(nickname)
    /\ Len(trimmed) >= NICKNAME_MIN_LENGTH
    /\ Len(trimmed) <= NICKNAME_MAX_LENGTH
    /\ \A i \in 1..Len(trimmed) : NicknameChar(trimmed[i])
    /\ trimmed = Trim(CollapseSpaces(nickname))

\* isNicknameExists comparing without toLowerCase
isNicknameExists_CaseSensitive(us, nickname) ==
    \E i \in 1..Len(us) : us[i].nickname = Trim(nickname)

\* isNicknameExists comparing without trim
isNicknameExists_Untrimmed(us, nickname) ==
    \E i \in 1..Len(us) : ToLowerCase(us[i].nickname) = ToLowerCase(nickname)

\* isNicknameExists
isNicknameExists(us, nickname) ==
    LET trimmedNickname == ToLowerCase(Trim(nickname)) IN
    \E i \in 1..Len(us) : ToLowerCase(us[i].nickname) = trimmedNickname

\* addUser looking at the room size before it looks for the nickname
addUserError_FullFirst(us, nickname) ==
    IF ~validateNickname(nickname) THEN INVALID_NICKNAME
    ELSE IF Len(us) >= MAX_USERS THEN ROOM_FULL
    ELSE IF isNicknameExists(us, nickname) THEN NICKNAME_TAKEN
    ELSE NoError

\* addUser letting one participant too many in (size > MAX_USERS)
addUserError_OffByOne(us, nickname) ==
    IF ~validateNickname(nickname) THEN INVALID_NICKNAME
    ELSE IF isNicknameExists(us, nickname) THEN NICKNAME_TAKEN
    ELSE IF Len(us) > MAX_USERS THEN ROOM_FULL
    ELSE NoError

\* The error addUser throws for this nickname, NoError when it throws none.
addUserError(us, nickname) ==
    IF ~validateNickname(nickname) THEN INVALID_NICKNAME
    ELSE IF isNicknameExists(us, nickname) THEN NICKNAME_TAKEN
    ELSE IF Len(us) >= MAX_USERS THEN ROOM_FULL
    ELSE NoError

\* The User object addUser creates at time t.
newUser(socketId, nickname, t) ==
    [id |-> socketId, nickname |-> Trim(nickname), joinedAt |-> t]

\* addUser registering the user before it checks anything
addUser_SetsFirst(us, socketId, nickname, t) ==
    MapSet(us, socketId, newUser(socketId, nickname, t))

\* addUser: the registry after the call (unchanged when it throws)
addUser(us, socketId, nickname, t) ==
    IF addUserError(us, nickname) # NoError THEN us
    ELSE MapSet(us, socketId, newUser(socketId, nickname, t))

\* removeUser returning the user without deleting it
removeUser_Keeps(us, socketId) == us

\* removeUser: the registry after the call
removeUser(us, socketId) ==
    IF MapHas(us, socketId) THEN MapDelete(us, socketId) ELSE us

\* getUser returning the first registered user, whoever asks
getUser_First(us, socketId) == IF us = <<>> THEN NoUser ELSE us[1]

\* getUser
getUser(us, socketId) == MapGet(us, socketId)

\* Array.prototype.sort by joinedAt (stable): insert u behind every element
\* that does not come after it.
RECURSIVE InsertByJoinedAt(_, _)
InsertByJoinedAt(sorted, u) ==
    IF sorted = <<>> THEN <<u>>
    ELSE IF sorted[Len(sorted)].joinedAt <= u.joinedAt THEN Append(sorted, u)
    ELSE Append(InsertByJoinedAt(SubSeq(sorted, 1, Len(sorted) - 1), u),
                sorted[Len(sorted)])

RECURSIVE SortByJoinedAt(_)
SortByJoinedAt(us) ==
    IF us = <<>> THEN <<>>
    ELSE InsertByJoinedAt(SortByJoinedAt(SubSeq(us, 1, Len(us) - 1)), us[Len(us)])

\* getAllNicknames
getAllNicknames(us) ==
    LET sorted == SortByJoinedAt(us) IN [i \in 1..Len(sorted) |-> sorted[i].nickname]

(* ------------------------------------------------------------------ *)
(* MessageStore                                                       *)
(* ------------------------------------------------------------------ *)

\* The character class [\x00-\x08\x0B\x0C\x0E-\x1F\x7F].
ControlChar(ch) ==
    \/ (ch >= 0 /\ ch <= 8)
    \/ ch = 11
    \/ ch = 12
    \/ (ch >= 14 /\ ch <= 31)
    \/ ch = 127

\* validateMessage measuring the message as it came, not trimmed
validateMessage_RawLength(message) ==
    /\ message # <<>>
    /\ IsString(message)
    /\ Len(message) >= MESSAGE_MIN_LENGTH
    /\ Len(message) <= MESSAGE_MAX_LENGTH
    /\ ~ \E i \in 1..Len(message) : ControlChar(message[i])

\* validateMessage: TRUE when it returns, FALSE when it throws
\* INVALID_MESSAGE.
validateMessage(message) ==
    LET trimmed == Trim(message) IN
    /\ message # <<>>
    /\ IsString(message)
    /\ Len(trimmed) >= MESSAGE_MIN_LENGTH
    /\ Len(trimmed) <= MESSAGE_MAX_LENGTH
    /\ ~ \E i \in 1..Len(message) : ControlChar(message[i])

\* sanitizeMessage replacing & last, which escapes the entities again
sanitizeMessage_AmpLast(message) ==
    LET r1 == ReplaceAll(message, 60, <<38, 108, 116, 59>>)
        r2 == ReplaceAll(r1, 62, <<38, 103, 116, 59>>)
        r3 == ReplaceAll(r2, 34, <<38, 113, 117, 111, 116, 59>>)
        r4 == ReplaceAll(r3, 39, <<38, 35, 120, 50, 55, 59>>)
        r5 == ReplaceAll(r4, 47, <<38, 35, 120, 50, 70, 59>>)
    IN  ReplaceAll(r5, 38, <<38, 97, 109, 112, 59>>)

\* sanitizeMessage: the six replacements, in the order of the code
sanitizeMessage(message) ==
    LET r1 == ReplaceAll(message, 38, <<38, 97, 109, 112, 59>>)        \* &  &amp;
        r2 == ReplaceAll(r1, 60, <<38, 108, 116, 59>>)                 \* <  &lt;
        r3 == ReplaceAll(r2, 62, <<38, 103, 116, 59>>)                 \* >  &gt;
        r4 == ReplaceAll(r3, 34, <<38, 113, 117, 111, 116, 59>>)       \* "  &quot;
        r5 == ReplaceAll(r4, 39, <<38, 35, 120, 50, 55, 59>>)          \* '  &#x27;
    IN  ReplaceAll(r5, 47, <<38, 35, 120, 50, 70, 59>>)                \* /  &#x2F;

\* The Message object addMessage creates: id is the uuid drawn, t the time.
newMessage(id, userId, nickname, message, t) ==
    [id |-> id,
     userId |-> userId,
     nickname |-> Trim(nickname),
     message |-> sanitizeMessage(Trim(message)),
     timestamp |-> t]

\* addMessage escaping the stored messages once more on every push
pushMessage_EscapesAgain(msgs, messageObj) ==
    LET again == [i \in 1..Len(msgs) |->
                     [msgs[i] EXCEPT !.message = sanitizeMessage(@)]]
        pushed == Append(again, messageObj)
    IN  IF Len(pushed) > MAX_MESSAGES
        THEN SubSeq(pushed, Len(pushed) - MAX_MESSAGES + 1, Len(pushed))
        ELSE pushed

\* addMessage putting the new message in front (unshift) and dropping from
\* the end
pushMessage_Unshift(msgs, messageObj) ==
    LET pushed == <<messageObj>> \o msgs IN
    IF Len(pushed) > MAX_MESSAGES THEN SubSeq(pushed, 1, MAX_MESSAGES) ELSE pushed

\* addMessage dropping the newest messages instead of the oldest
pushMessage_KeepsOldest(msgs, messageObj) ==
    LET pushed == Append(msgs, messageObj) IN
    IF Len(pushed) > MAX_MESSAGES THEN SubSeq(pushed, 1, MAX_MESSAGES) ELSE pushed

\* messages.push(messageObj), then splice(0, length - MAX_MESSAGES) when
\* the length exceeds MAX_MESSAGES
pushMessage(msgs, messageObj) ==
    LET pushed == Append(msgs, messageObj) IN
    IF Len(pushed) > MAX_MESSAGES
    THEN SubSeq(pushed, Len(pushed) - MAX_MESSAGES + 1, Len(pushed))
    ELSE pushed

\* addMessage: the log after the call (unchanged when it throws)
addMessage(msgs, id, userId, nickname, message, t) ==
    IF ~validateMessage(message) THEN msgs
    ELSE pushMessage(msgs, newMessage(id, userId, nickname, message, t))

\* getRecentMessages without Math.max(1, limit)
getRecentMessages_NoClamp(msgs, limit) ==
    LET actualLimit == IF limit < Len(msgs) THEN limit ELSE Len(msgs)
    IN  IF actualLimit = 0 THEN msgs
        ELSE IF actualLimit < 0
             THEN SubSeq(msgs, 1 - actualLimit, Len(msgs))
             ELSE SubSeq(msgs, Len(msgs) - actualLimit + 1, Len(msgs))

\* getRecentMessages; slice(-0) is slice(0), the whole (empty) array
getRecentMessages(msgs, limit) ==
    LET atLeastOne == IF limit > 1 THEN limit ELSE 1
        actualLimit == IF atLeastOne < Len(msgs) THEN atLeastOne ELSE Len(msgs)
    IN  IF actualLimit = 0 THEN msgs
        ELSE SubSeq(msgs, Len(msgs) - actualLimit + 1, Len(msgs))

\* String.prototype.includes
Includes(s, sub) ==
    \E i \in 0..(Len(s) - Len(sub)) : SubSeq(s, i + 1, i + Len(sub)) = sub

\* Array.prototype.slice(start): a negative start counts from the end
Slice(seq, start) ==
    LET from == IF start < 0
                THEN (IF Len(seq) + start > 0 THEN Len(seq) + start ELSE 0)
                ELSE (IF start < Len(seq) THEN start ELSE Len(seq))
    IN  SubSeq(seq, from + 1, Len(seq))

\* searchMessages
searchMessages(msgs, searchTerm, limit) ==
    IF searchTerm = <<>> \/ ~IsString(searchTerm) THEN <<>>
    ELSE LET term == Trim(ToLowerCase(searchTerm))
             Found(msg) == \/ Includes(ToLowerCase(msg.message), term)
                           \/ Includes(ToLowerCase(msg.nickname), term)
         IN  IF Len(term) = 0 THEN <<>>
             ELSE Slice(SelectSeq(msgs, Found), 0 - limit)

(* ------------------------------------------------------------------ *)
(* SocketManager: rate limiting and error messages                    *)
(* ------------------------------------------------------------------ *)

\* One window for every socket: the timestamps of the first socket that
\* has one
timestampsOf_AnySocket(map, socketId) ==
    IF DOMAIN map = {} THEN <<>> ELSE map[CHOOSE key \in DOMAIN map : TRUE]

\* rateLimitMap.get(socketId) || []
timestampsOf(map, socketId) ==
    IF socketId \in DOMAIN map THEN map[socketId] ELSE <<>>

\* timestamps.filter(timestamp => now - timestamp < RATE_LIMIT_WINDOW_MS)
recentTimestamps(map, socketId, t) ==
    LET Recent(timestamp) == t - timestamp < RATE_LIMIT_WINDOW_MS
    IN  SelectSeq(timestampsOf(map, socketId), Recent)

\* checkRateLimit refusing only above the limit (length > RATE_LIMIT_PER_SECOND)
checkRateLimit_OffByOne(map, socketId, t) ==
    ~ (Len(recentTimestamps(map, socketId, t)) > RATE_LIMIT_PER_SECOND)

\* checkRateLimit: its return value
checkRateLimit(map, socketId, t) ==
    ~ (Len(recentTimestamps(map, socketId, t)) >= RATE_LIMIT_PER_SECOND)

\* rateLimitMap.set(key, val)
rateLimitSet(map, key, val) ==
    [k \in DOMAIN map \cup {key} |-> IF k = key THEN val ELSE map[k]]

\* handleDisconnect leaving the entry of the socket in rateLimitMap
rateLimitDelete_Keeps(map, key) == map

\* rateLimitMap.delete(key)
rateLimitDelete(map, key) ==
    [k \in DOMAIN map \ {key} |-> map[k]]

\* checkRateLimit recording the attempt before it decides
rateLimitAfter_RecordsRefused(map, socketId, t) ==
    rateLimitSet(map, socketId, Append(recentTimestamps(map, socketId, t), t))

\* checkRateLimit: rateLimitMap after the call (untouched when it returns false)
rateLimitAfter(map, socketId, t) ==
    IF checkRateLimit(map, socketId, t)
    THEN rateLimitSet(map, socketId, Append(recentTimestamps(map, socketId, t), t))
    ELSE map

\* getErrorMessage (the texts are Japanese in the source)
getErrorMessage(errorCode) ==
    CASE errorCode = NICKNAME_TAKEN -> "this nickname is already in use"
      [] errorCode = INVALID_NICKNAME -> "enter a nickname of 1-20 characters"
      [] errorCode = ROOM_FULL -> "the chat room is full"
      [] errorCode = INVALID_MESSAGE -> "enter a message of 1-500 characters"
      [] errorCode = RATE_LIMIT_EXCEEDED -> "you are sending too often"
      [] errorCode = SERVER_ERROR -> "a server error occurred"
      [] errorCode = CONNECTION_ERROR -> "a connection error occurred"
      [] OTHER -> "an unknown error occurred"

(* ------------------------------------------------------------------ *)
(* Outbound events                                                    *)
(* ------------------------------------------------------------------ *)

\* socket.emit(event, data): to that socket only
socketEmit(socketId, event, data) ==
    [event |-> event, to |-> {socketId}, data |-> data]

\* socket.broadcast.emit(event, data): to every connected socket but that one
broadcastEmit(conn, socketId, event, data) ==
    [event |-> event, to |-> conn \ {socketId}, data |-> data]

\* io.emit(event, data): to every connected socket
ioEmit(conn, event, data) ==
    [event |-> event, to |-> conn, data |-> data]

\* The catch block sending the error with io.emit
errorEvent_Broadcast(socketId, code) ==
    ioEmit(Connected, "error",
           [code |-> code, message |-> getErrorMessage(code)])

\* The error event of a catch block.
errorEvent(socketId, code) ==
    socketEmit(socketId, "error",
               [code |-> code, message |-> getErrorMessage(code)])

\* A catch block that answers the errors the managers throw and lets every
\* other fault escape
caught_OwnErrorsOnly(socketId, code) ==
    IF code \in {NICKNAME_TAKEN, INVALID_NICKNAME, ROOM_FULL, INVALID_MESSAGE,
                 RATE_LIMIT_EXCEEDED, CONNECTION_ERROR}
    THEN << errorEvent(socketId, code) >>
    ELSE <<>>

\* What a handler emits when its try block throws: code is error.message.
caught(socketId, code) == << errorEvent(socketId, code) >>

(* ------------------------------------------------------------------ *)
(* Inbound events                                                     *)
(* ------------------------------------------------------------------ *)

\* Nicknames clients ask for: "Al", " al", "Bo", "Cy" and "".
NicknameInputs ==
    { <<65, 108>>, <<32, 97, 108>>, <<66, 111>>, <<67, 121>>, <<>> }

\* Message texts clients send: " hi ", "<b>hi</b>", "&" with both quotes,
\* "" and "a" followed by the control character U+0001.
MessageInputs ==
    { <<32, 104, 105, 32>>, <<60, 98, 62, 104, 105, 60, 47, 98, 62>>,
      <<38, 34, 39>>, <<>>, <<97, 1>> }

\* No update-users event has been emitted yet.
NoList == << <<-3>> >>

\* No request has reached the polling interface yet.
NoRequest == [action |-> "none", user |-> <<>>, message |-> <<>>, since |-> <<>>]

Init ==
    /\ sockets = [s \in Sockets |-> "new"]
    /\ users = <<>>
    /\ messages = <<>>
    /\ rateLimitMap = <<>>
    /\ now = 0
    /\ nextId = 0
    /\ emitted = <<>>
    /\ last = [op |-> "none", id |-> "", arg |-> <<>>, was |-> "new"]
    /\ acquired = [s \in Sockets |-> <<>>]
    /\ api = [variant |-> "strict", users |-> <<>>, messages |-> <<>>,
              request |-> NoRequest, status |-> 0, sent |-> <<>>]
    /\ heard = [announced |-> {}, listed |-> {}, inbox |-> [s \in Sockets |-> <<>>],
                latest |-> NoList]

\* handleConnection: the transport hands over the next new socket
handleConnection(s) ==
    /\ sockets[s] = "new"
    /\ \A o \in Sockets : SocketOrder[o] < SocketOrder[s] => sockets[o] # "new"
    /\ sockets' = [sockets EXCEPT ![s] = "open"]
    /\ rateLimitMap' = rateLimitSet(rateLimitMap, s, <<>>)
    /\ emitted' = <<>>
    /\ last' = [op |-> "connection", id |-> s, arg |-> <<>>, was |-> "new"]
    /\ UNCHANGED <<users, messages, now, nextId, acquired>>

\* handleJoinRoom taking the list for join-success before addUser
joinEvents_ListBeforeJoin(conn, us, msgs, user) ==
    << socketEmit(user.id, "join-success",
                  [nickname |-> user.nickname,
                   users |-> getAllNicknames(removeUser(us, user.id)),
                   messages |-> getRecentMessages(msgs, JOIN_RECENT_LIMIT)]),
       broadcastEmit(conn, user.id, "user-joined",
                     [nickname |-> user.nickname, timestamp |-> user.joinedAt]),
       ioEmit(conn, "update-users", [users |-> getAllNicknames(us)]) >>

\* handleJoinRoom telling everyone, the joiner included, of the new participant
joinEvents_JoinedToAll(conn, us, msgs, user) ==
    << socketEmit(user.id, "join-success",
                  [nickname |-> user.nickname,
                   users |-> getAllNicknames(us),
                   messages |-> getRecentMessages(msgs, JOIN_RECENT_LIMIT)]),
       ioEmit(conn, "user-joined",
              [nickname |-> user.nickname, timestamp |-> user.joinedAt]),
       ioEmit(conn, "update-users", [users |-> getAllNicknames(us)]) >>

\* What handleJoinRoom emits when addUser returns.
joinEvents(conn, us, msgs, user) ==
    << socketEmit(user.id, "join-success",
                  [nickname |-> user.nickname,
                   users |-> getAllNicknames(us),
                   messages |-> getRecentMessages(msgs, JOIN_RECENT_LIMIT)]),
       broadcastEmit(conn, user.id, "user-joined",
                     [nickname |-> user.nickname, timestamp |-> user.joinedAt]),
       ioEmit(conn, "update-users", [users |-> getAllNicknames(us)]) >>

\* The error handleJoinRoom throws, NoError when it throws none: reading
\* data.nickname comes first, then addUser.
joinError(us, nickname) ==
    IF nickname = MissingData THEN TYPE_ERROR ELSE addUserError(us, nickname)

\* handleJoinRoom
handleJoinRoom(s, nickname) ==
    /\ sockets[s] = "open"
    /\ users' = IF nickname = MissingData THEN users
                ELSE addUser(users, s, nickname, now)
    /\ emitted' =
          IF joinError(users, nickname) = NoError
          THEN joinEvents(Connected, users', messages, newUser(s, nickname, now))
          ELSE caught(s, joinError(users, nickname))
    /\ last' = [op |-> "join-room", id |-> s, arg |-> nickname, was |-> "open"]
    /\ UNCHANGED <<sockets, messages, rateLimitMap, now, nextId, acquired>>

\* handleSendMessage delivering with socket.broadcast.emit
sendEvents_SkipSender(conn, s, message) ==
    << broadcastEmit(conn, s, "receive-message", message) >>

\* What handleSendMessage emits when addMessage returns.
sendEvents(conn, s, message) ==
    << ioEmit(conn, "receive-message", message) >>

\* handleSendMessage validating the body before it asks the rate limiter
sendError_ValidatesFirst(us, map, s, message, t) ==
    IF ~MapHas(us, s) THEN CONNECTION_ERROR
    ELSE IF message = MissingData THEN TYPE_ERROR
    ELSE IF ~validateMessage(message) THEN INVALID_MESSAGE
    ELSE IF ~checkRateLimit(map, s, t) THEN RATE_LIMIT_EXCEEDED
    ELSE NoError

\* handleSendMessage without the lookup of the sender
sendError_NoLookup(us, map, s, message, t) ==
    IF ~checkRateLimit(map, s, t) THEN RATE_LIMIT_EXCEEDED
    ELSE IF message = MissingData THEN TYPE_ERROR
    ELSE IF ~validateMessage(message) THEN INVALID_MESSAGE
    ELSE NoError

\* The error handleSendMessage throws, NoError when it throws none.
sendError(us, map, s, message, t) ==
    IF ~MapHas(us, s) THEN CONNECTION_ERROR
    ELSE IF ~checkRateLimit(map, s, t) THEN RATE_LIMIT_EXCEEDED
    ELSE IF message = MissingData THEN TYPE_ERROR
    ELSE IF ~validateMessage(message) THEN INVALID_MESSAGE
    ELSE NoError

\* handleSendMessage asking the rate limiter only for a valid body
rateLimitAfterSend_ValidatesFirst(us, map, s, message, t) ==
    IF MapHas(us, s) /\ message # MissingData /\ validateMessage(message)
    THEN rateLimitAfter(map, s, t)
    ELSE map

\* rateLimitMap after handleSendMessage: checkRateLimit is called once the
\* sender is found, before data.message is read.
rateLimitAfterSend(us, map, s, message, t) ==
    IF MapHas(us, s) THEN rateLimitAfter(map, s, t) ELSE map

\* handleSendMessage
handleSendMessage(s, message) ==
    /\ sockets[s] = "open"
    /\ LET user == getUser(users, s)
           err == sendError(users, rateLimitMap, s, message, now)
       IN  /\ rateLimitMap' = rateLimitAfterSend(users, rateLimitMap, s, message, now)
           /\ messages' =
                 IF err \in {NoError, INVALID_MESSAGE}
                 THEN addMessage(messages, nextId + 1, user.id, user.nickname, message, now)
                 ELSE messages
           /\ nextId' = IF err = NoError THEN nextId + 1 ELSE nextId
           /\ acquired' =
                 IF err \in {NoError, INVALID_MESSAGE, TYPE_ERROR}
                 THEN [acquired EXCEPT ![s] = Append(@, now)]
                 ELSE acquired
           /\ emitted' =
                 IF err = NoError
                 THEN sendEvents(Connected, s,
                                 newMessage(nextId + 1, user.id, user.nickname, message, now))
                 ELSE caught(s, err)
    /\ last' = [op |-> "send-message", id |-> s, arg |-> message, was |-> "open"]
    /\ UNCHANGED <<sockets, users, now>>

\* handleDisconnect sending the participant list whether or not a user left
disconnectEvents_Always(conn, us, s, t) ==
    IF MapHas(us, s)
    THEN << broadcastEmit(conn, s, "user-left",
                          [nickname |-> getUser(us, s).nickname, timestamp |-> t]),
            ioEmit(conn, "update-users",
                   [users |-> getAllNicknames(removeUser(us, s))]) >>
    ELSE << ioEmit(conn, "update-users", [users |-> getAllNicknames(us)]) >>

\* handleDisconnect listing the participants as they were before the removal
disconnectEvents_StaleList(conn, us, s, t) ==
    IF MapHas(us, s)
    THEN << broadcastEmit(conn, s, "user-left",
                          [nickname |-> getUser(us, s).nickname, timestamp |-> t]),
            ioEmit(conn, "update-users", [users |-> getAllNicknames(us)]) >>
    ELSE <<>>

\* What handleDisconnect emits: conn are the sockets still connected, us the
\* registry before removeUser.
disconnectEvents(conn, us, s, t) ==
    IF MapHas(us, s)
    THEN << broadcastEmit(conn, s, "user-left",
                          [nickname |-> getUser(us, s).nickname, timestamp |-> t]),
            ioEmit(conn, "update-users",
                   [users |-> getAllNicknames(removeUser(us, s))]) >>
    ELSE <<>>

\* handleDisconnect taking the messages of the departed socket off the log
handleDisconnect_DropsMessages(s) ==
    LET Others(msg) == msg.userId # s IN
    /\ sockets[s] \in {"open", "closed"}
    /\ sockets' = [sockets EXCEPT ![s] = "closed"]
    /\ users' = removeUser(users, s)
    /\ emitted' = disconnectEvents(Connected \ {s}, users, s, now)
    /\ rateLimitMap' = rateLimitDelete(rateLimitMap, s)
    /\ last' = [op |-> "disconnect", id |-> s, arg |-> <<>>, was |-> sockets[s]]
    /\ acquired' = [acquired EXCEPT ![s] = <<>>]
    /\ messages' = SelectSeq(messages, Others)
    /\ UNCHANGED <<now, nextId>>

\* handleDisconnect, the socket having left the server's set of sockets
\* before the handler runs; on a socket already closed it runs again.
handleDisconnect(s) ==
    /\ sockets[s] \in {"open", "closed"}
    /\ sockets' = [sockets EXCEPT ![s] = "closed"]
    /\ users' = removeUser(users, s)
    /\ emitted' = disconnectEvents(Connected \ {s}, users, s, now)
    /\ rateLimitMap' = rateLimitDelete(rateLimitMap, s)
    /\ last' = [op |-> "disconnect", id |-> s, arg |-> <<>>, was |-> sockets[s]]
    /\ acquired' = [acquired EXCEPT ![s] = <<>>]
    /\ UNCHANGED <<messages, now, nextId>>

\* clearAllUsers
clearAllUsers(us) == <<>>

\* clearMessages leaving the log as it is
clearMessages_Keeps(msgs) == msgs

\* clearMessages
clearMessages(msgs) == <<>>

\* rateLimitMap.clear()
rateLimitClear(map) == <<>>

\* The sockets of D in the order in which they connected.
InOrder(D) ==
    LET Member(s) == s \in D IN SelectSeq(<<"s1", "s2", "s3", "s4", "s5">>, Member)

\* What the disconnect handlers emit when io.close() takes the sockets of
\* order off the server one after the other: conn are the sockets still
\* connected, us is the registry.
RECURSIVE closeDisconnects(_, _, _, _)
closeDisconnects(order, conn, us, t) ==
    IF order = <<>> THEN <<>>
    ELSE disconnectEvents(conn \ {Head(order)}, us, Head(order), t)
            \o closeDisconnects(Tail(order), conn \ {Head(order)},
                                removeUser(us, Head(order)), t)

\* close: server-shutdown to every socket, io.close(), then the three
\* stores are cleared. io.close() disconnects every socket and accepts no
\* new one; the disconnect handlers run inside it, before the stores are
\* cleared, or afterwards, as the library schedules them.
close ==
    /\ \A s \in Sockets : sockets[s] # "refused"
    /\ \E inside \in BOOLEAN :
          emitted' =
              << ioEmit(Connected, "server-shutdown",
                        [message |-> "the server stops for maintenance"]) >>
              \o (IF inside
                  THEN closeDisconnects(InOrder(Connected), Connected, users, now)
                  ELSE <<>>)
    /\ sockets' = [s \in Sockets |-> IF sockets[s] = "new" THEN "refused" ELSE "closed"]
    /\ users' = clearAllUsers(users)
    /\ messages' = clearMessages(messages)
    /\ rateLimitMap' = rateLimitClear(rateLimitMap)
    /\ acquired' = [s \in Sockets |-> <<>>]
    /\ last' = [op |-> "close", id |-> "", arg |-> <<>>, was |-> "open"]
    /\ UNCHANGED <<now, nextId>>

\* The elements of a sequence.
Range(seq) == {seq[i] : i \in 1..Len(seq)}

\* What the clients have been told once event e is emitted: announced are
\* the nicknames whose last notification was user-joined, listed those
\* that an update-users list has shown and no user-left has taken back,
\* inbox[s] the ids of the messages delivered to s, in order, latest the
\* list of the last update-users event.
HeardOne(h, e) ==
    CASE e.event = "user-joined" ->
            [h EXCEPT !.announced = @ \cup {e.data.nickname}]
      [] e.event = "user-left" ->
            [h EXCEPT !.announced = @ \ {e.data.nickname},
                      !.listed = @ \ {e.data.nickname}]
      [] e.event = "update-users" ->
            [h EXCEPT !.listed = @ \cup Range(e.data.users),
                      !.latest = e.data.users]
      [] e.event = "receive-message" ->
            [h EXCEPT !.inbox = [s \in Sockets |->
                                    IF s \in e.to THEN Append(@[s], e.data.id) ELSE @[s]]]
      [] OTHER -> h

\* The same after a sequence of events.
RECURSIVE Heard(_, _)
Heard(h, events) ==
    IF events = <<>> THEN h ELSE Heard(HeardOne(h, Head(events)), Tail(events))

\* Time passes.
Tick ==
    /\ now' = now + TickMs
    /\ UNCHANGED <<sockets, users, messages, rateLimitMap, nextId, emitted, last, acquired, api, heard>>

\* "<b>hi</b>"
BoldHi == <<60, 98, 62, 104, 105, 60, 47, 98, 62>>

\* The connection, join and disconnect handlers driven by the sockets of S,
\* which ask for the nicknames of N.
Registry(S, N) ==
    \/ \E s \in S : handleConnection(s) /\ UNCHANGED <<api, heard>>
    \/ \E s \in S, nickname \in N : handleJoinRoom(s, nickname) /\ UNCHANGED <<api, heard>>
    \/ \E s \in S : handleDisconnect(s) /\ UNCHANGED <<api, heard>>

\* All four handlers: the sockets of S also send the texts of M, until
\* maxSends messages are stored.
Run(S, N, M, maxSends) ==
    \/ Registry(S, N)
    \/ \E s \in S, message \in M :
          nextId < maxSends /\ handleSendMessage(s, message) /\ UNCHANGED <<api, heard>>

\* The room: three sockets joining under every nickname and leaving, as
\* time passes.
Next ==
    \/ Registry({"s1", "s2", "s3"}, NicknameInputs)
    \/ (now + TickMs <= MaxTime /\ Tick)

Spec == Init /\ [][Next]_vars

\* The nickname each socket asks for in the full room: "Al", "Bo", "Cy",
\* "Di" and "Ed".
NameOf ==
    [s \in Sockets |->
        CASE s = "s1" -> <<65, 108>> [] s = "s2" -> <<66, 111>>
          [] s = "s3" -> <<67, 121>> [] s = "s4" -> <<68, 105>>
          [] s = "s5" -> <<69, 100>>]

\* The full room: five sockets, each joining under its own nickname, under
\* " al" or under "", and leaving.
NextFull ==
    \/ \E s \in Sockets : handleConnection(s) /\ UNCHANGED <<api, heard>>
    \/ \E s \in Sockets : \E nickname \in {NameOf[s], <<32, 97, 108>>, <<>>} :
          handleJoinRoom(s, nickname) /\ UNCHANGED <<api, heard>>
    \/ \E s \in Sockets : handleDisconnect(s) /\ UNCHANGED <<api, heard>>

SpecFull == Init /\ [][NextFull]_vars

\* The chat: two sockets joining as "Al", " al", "Bo" or "", sending
\* "<b>hi</b>" or "", and leaving.
NextChat ==
    Run({"s1", "s2"}, { <<65, 108>>, <<32, 97, 108>>, <<66, 111>>, <<>> },
        {BoldHi, <<>>}, MaxSends)

SpecChat == Init /\ [][NextChat]_vars

\* The rate limiter: two sockets joining as "Al" and sending " hi " or ""
\* as time passes.
NextRate ==
    \/ Run({"s1", "s2"}, { <<65, 108>> }, { <<32, 104, 105, 32>>, <<>> }, MaxSendsRate)
    \/ (now + TickMs <= MaxTimeRate /\ Tick)

SpecRate == Init /\ [][NextRate]_vars

\* Two senders: "Al" on one socket and "Bo" on the other, sending " hi "
\* as time passes.
NextPair ==
    \/ \E s \in {"s1", "s2"} : handleConnection(s) /\ UNCHANGED <<api, heard>>
    \/ \E s \in {"s1", "s2"} : handleJoinRoom(s, NameOf[s]) /\ UNCHANGED <<api, heard>>
    \/ \E s \in {"s1", "s2"} :
          /\ nextId < MaxSendsRate
          /\ handleSendMessage(s, <<32, 104, 105, 32>>)
          /\ UNCHANGED <<api, heard>>
    \/ \E s \in {"s1", "s2"} : handleDisconnect(s) /\ UNCHANGED <<api, heard>>
    \/ (now + TickMs <= MaxTimeRate /\ Tick)

SpecPair == Init /\ [][NextPair]_vars

\* The log: two sockets joining as "Al" and sending every text.
NextLog ==
    Run({"s1", "s2"}, { <<65, 108>> }, MessageInputs, MaxSendsLog)

SpecLog == Init /\ [][NextLog]_vars

\* Faulty payloads: two sockets joining as "Al" or "Bo" and sending
\* " hi ", with and without a payload and with fields that are no strings.
NextFault ==
    Run({"s1", "s2"}, { <<65, 108>>, <<66, 111>>, MissingData, MissingField },
        { <<32, 104, 105, 32>>, MissingData, MissingField }, MaxSends)

SpecFault == Init /\ [][NextFault]_vars

\* n times the letter a
LongBody(n) == [i \in 1..n |-> 97]

\* Bodies at the edges of validateMessage: " hi ", tab "hi" line feed,
\* "a" tab "b", "a" carriage return "b", "a" U+0001, U+007F, two spaces,
\* "", MESSAGE_MAX_LENGTH letters, one letter more, MESSAGE_MAX_LENGTH
\* letters between two spaces, and "<" after MESSAGE_MAX_LENGTH - 1 letters.
BodyInputs ==
    { <<32, 104, 105, 32>>, <<9, 104, 105, 10>>, <<97, 9, 98>>, <<97, 13, 98>>,
      <<97, 1>>, <<127>>, <<32, 32>>, <<>>,
      LongBody(MESSAGE_MAX_LENGTH), LongBody(MESSAGE_MAX_LENGTH + 1),
      <<32>> \o LongBody(MESSAGE_MAX_LENGTH) \o <<32>>,
      LongBody(MESSAGE_MAX_LENGTH - 1) \o <<60>> }

\* The bodies: one socket joining as "Al" and sending every body.
NextBody ==
    Run({"s1"}, { <<65, 108>> }, BodyInputs, MaxSendsLog)

SpecBody == Init /\ [][NextBody]_vars

\* The shutdown: two sockets joining as "Al" or "Bo", sending " hi " and
\* leaving, until the server is closed.
NextClose ==
    \/ Run({"s1", "s2"}, { <<65, 108>>, <<66, 111>> }, { <<32, 104, 105, 32>> }, MaxSends)
    \/ (close /\ UNCHANGED <<api, heard>>)

SpecClose == Init /\ [][NextClose]_vars

\* The notifications: two sockets joining as "Al" or "Bo", sending " hi "
\* and leaving, with what the clients are told kept as history.
NextHeard ==
    \/ \E s \in {"s1", "s2"} : handleConnection(s) /\ UNCHANGED <<api, heard>>
    \/ \E s \in {"s1", "s2"}, nickname \in { <<65, 108>>, <<66, 111>> } :
          handleJoinRoom(s, nickname) /\ heard' = Heard(heard, emitted') /\ UNCHANGED api
    \/ \E s \in {"s1", "s2"} :
          /\ nextId < MaxSends
          /\ handleSendMessage(s, <<32, 104, 105, 32>>)
          /\ heard' = Heard(heard, emitted')
          /\ UNCHANGED api
    \/ \E s \in {"s1", "s2"} :
          handleDisconnect(s) /\ heard' = Heard(heard, emitted') /\ UNCHANGED api

SpecHeard == Init /\ [][NextHeard]_vars

(* ------------------------------------------------------------------ *)
(* api/chat.ts: the HTTP polling interface                            *)
(* ------------------------------------------------------------------ *)

\* !value for a string, undefined or null
Falsy(value) == value = <<>> \/ ~IsString(value)

\* Set.prototype.add, the Set kept in insertion order
SetAdd(set, value) ==
    IF \E i \in 1..Len(set) : set[i] = value THEN set ELSE Append(set, value)

\* Set.prototype.delete
SetDelete(set, value) ==
    LET Other(x) == x # value IN SelectSeq(set, Other)

\* Set.prototype.has
SetHas(set, value) == \E i \in 1..Len(set) : set[i] = value

\* handlePost, action 'join'
postJoin(a, user) ==
    IF Falsy(user) \/ Len(user) > NICKNAME_MAX_LENGTH
    THEN [a EXCEPT !.status = 400]
    ELSE [a EXCEPT !.users = SetAdd(@, user), !.status = 200]

\* handlePost, action 'message'; of the id only the time is kept. The log
\* keeps the last 100 messages in the source, MAX_MESSAGES here. The later
\* handler of chat.ts ("strict") asks users.has(user), the earlier one
\* ("lax") does not.
postMessage(a, user, message, t) ==
    IF Falsy(user) \/ Falsy(message) \/ Len(message) > MESSAGE_MAX_LENGTH
    THEN [a EXCEPT !.status = 400]
    ELSE IF a.variant = "strict" /\ ~SetHas(a.users, user)
    THEN [a EXCEPT !.status = 400]
    ELSE LET newMsg == [id |-> t, user |-> user, message |-> message, timestamp |-> t]
             pushed == Append(a.messages, newMsg)
         IN  [a EXCEPT !.messages =
                          IF Len(pushed) > MAX_MESSAGES
                          THEN SubSeq(pushed, Len(pushed) - MAX_MESSAGES + 1, Len(pushed))
                          ELSE pushed,
                       !.status = 200]

\* handlePost, action 'leave'
postLeave(a, user) ==
    IF Falsy(user) THEN [a EXCEPT !.status = 200]
    ELSE [a EXCEPT !.users = SetDelete(@, user), !.status = 200]

\* handleGet returning also the messages stamped since itself
getMessagesSince_Inclusive(a, since) ==
    LET Newer(msg) == msg.timestamp >= since IN SelectSeq(a.messages, Newer)

\* handleGet, action 'messages': the messages newer than since
getMessagesSince(a, since) ==
    LET Newer(msg) == msg.timestamp > since IN SelectSeq(a.messages, Newer)

\* Number to string, as the client writes lastMessageTime into the query
RECURSIVE DecimalString(_)
DecimalString(n) ==
    IF n < 10 THEN <<48 + n>> ELSE DecimalString(n \div 10) \o <<48 + (n % 10)>>

\* The value of the decimal digits at the head of str, after acc
RECURSIVE DigitsValue(_, _)
DigitsValue(str, acc) ==
    IF str # <<>> /\ Head(str) >= 48 /\ Head(str) <= 57
    THEN DigitsValue(Tail(str), 10 * acc + (Head(str) - 48))
    ELSE acc

\* parseInt of a decimal string: white space, a sign and digits, whatever
\* follows the digits is ignored; <<n>> is the number n, <<>> is NaN
ParseInt(str) ==
    LET s == TrimStart(str)
        signed == s # <<>> /\ Head(s) \in {43, 45}
        digits == IF signed THEN Tail(s) ELSE s
    IN  IF digits = <<>> \/ Head(digits) < 48 \/ Head(digits) > 57 THEN <<>>
        ELSE IF signed /\ Head(s) = 45 THEN << 0 - DigitsValue(digits, 0) >>
        ELSE << DigitsValue(digits, 0) >>

\* since ? parseInt(since) : 0
sinceTimestamp(since) == IF Falsy(since) THEN <<0>> ELSE ParseInt(since)

\* messages.filter(msg => msg.timestamp > sinceTimestamp): nothing is
\* greater than NaN
filteredMessages(a, since) ==
    IF sinceTimestamp(since) = <<>> THEN <<>>
    ELSE getMessagesSince(a, sinceTimestamp(since)[1])

\* handlePost; chat-minimal.js ("minimal") answers every POST with success
\* and keeps nothing.
handlePost(a, action, user, message, t) ==
    LET request == [action |-> action, user |-> user, message |-> message, since |-> <<>>]
        answered ==
            IF a.variant = "minimal" THEN [a EXCEPT !.status = 200]
            ELSE CASE action = "join" -> postJoin(a, user)
                   [] action = "message" -> postMessage(a, user, message, t)
                   [] action = "leave" -> postLeave(a, user)
                   [] OTHER -> [a EXCEPT !.status = 400]
    IN  [answered EXCEPT !.request = request, !.sent = <<>>]

\* handleGet, actions 'messages' and 'users'; chat-minimal.js answers every
\* GET with an empty list.
handleGet(a, action, since) ==
    LET request == [action |-> action, user |-> <<>>, message |-> <<>>, since |-> since]
    IN  [a EXCEPT !.request = request,
                  !.status = 200,
                  !.sent = IF a.variant # "minimal" /\ action = "messages"
                           THEN filteredMessages(a, since)
                           ELSE <<>>]

\* handleGet, action 'users'
getUsers(a) == a.users

\* The user name a polling client sends with its messages and its leave:
\* the nickname it has joined under, null before it has joined.
currentUser(s) ==
    IF MapHas(users, s) THEN getUser(users, s).nickname ELSE MissingField

\* Both interfaces side by side: every client operation goes to the socket
\* handlers and, as the POST it corresponds to, to the polling interface.
NextPoll ==
    \/ \E s \in {"s1", "s2"} : handleConnection(s) /\ UNCHANGED <<api, heard>>
    \/ \E s \in {"s1", "s2"}, nickname \in { <<65, 108>>, <<66, 111>> } :
          handleJoinRoom(s, nickname) /\ api' = postJoin(api, nickname) /\ UNCHANGED heard
    \/ \E s \in {"s1", "s2"}, message \in { <<104, 105>>, BoldHi } :
          /\ nextId < MaxSends
          /\ handleSendMessage(s, message)
          /\ api' = postMessage(api, currentUser(s), message, now)
          /\ UNCHANGED heard
    \/ \E s \in {"s1", "s2"} :
          handleDisconnect(s) /\ api' = postLeave(api, currentUser(s)) /\ UNCHANGED heard

SpecPoll == Init /\ [][NextPoll]_vars

\* The handlers of the polling interface found in the repository.
ApiVariants == {"strict", "lax", "minimal"}

\* The since values of the queries: none, "", the times 0, TickMs and
\* 2 * TickMs as the client writes them, "abc", and digits followed by "x".
SinceInputs ==
    { MissingField, <<>>, DecimalString(0), DecimalString(TickMs),
      DecimalString(2 * TickMs), <<97, 98, 99>>, DecimalString(TickMs) \o <<120>> }

\* The polling interface starts at a time after 1970, with one of the
\* handlers deployed.
InitApi ==
    /\ sockets = [s \in Sockets |-> "new"]
    /\ users = <<>>
    /\ messages = <<>>
    /\ rateLimitMap = <<>>
    /\ now = TickMs
    /\ nextId = 0
    /\ emitted = <<>>
    /\ last = [op |-> "none", id |-> "", arg |-> <<>>, was |-> "new"]
    /\ acquired = [s \in Sockets |-> <<>>]
    /\ \E variant \in ApiVariants :
          api = [variant |-> variant, users |-> <<>>, messages |-> <<>>,
                 request |-> NoRequest, status |-> 0, sent |-> <<>>]
    /\ heard = [announced |-> {}, listed |-> {}, inbox |-> [s \in Sockets |-> <<>>],
                latest |-> NoList]

\* A request to the polling interface is answered.
Answered(a) ==
    /\ api' = a
    /\ UNCHANGED <<sockets, users, messages, rateLimitMap, now, nextId, emitted, last, acquired, heard>>

\* The polling interface alone: "Al" and "Bo" join, post "hi" and leave,
\* and the messages are asked for, as time passes.
NextApi ==
    \/ \E user \in { <<65, 108>>, <<66, 111>> } :
          Answered(handlePost(api, "join", user, MissingField, now))
    \/ \E user \in { <<65, 108>>, <<66, 111>> } :
          Answered(handlePost(api, "message", user, <<104, 105>>, now))
    \/ \E user \in { <<65, 108>>, <<66, 111>> } :
          Answered(handlePost(api, "leave", user, MissingField, now))
    \/ \E since \in SinceInputs : Answered(handleGet(api, "messages", since))
    \/ (now + TickMs <= MaxTimeRate /\ Tick)

SpecApi == InitApi /\ [][NextApi]_vars

(* ------------------------------------------------------------------ *)
(* Properties                                                         *)
(* ------------------------------------------------------------------ *)

\* Nicknames as the claims compare them: trimmed, case-insensitively.
SameNickname(a, b) == ToLowerCase(Trim(a)) = ToLowerCase(Trim(b))

\* The registered participants whose connection is live.
ActiveUsers == {i \in 1..Len(users) : sockets[users[i].id] = "open"}

\* An active participant holds this nickname.
HeldByActive(nickname) ==
    \E i \in ActiveUsers : SameNickname(users[i].nickname, nickname)

\* The step is a run of the handler of this inbound event (the clock
\* stands still while a handler runs).
Handled(op) == now' = now /\ last'.op = op

\* The handler answered the join of s with nothing but this error.
JoinRefused(s, code) ==
    /\ users' = users
    /\ Len(emitted') = 1
    /\ emitted'[1].event = "error"
    /\ emitted'[1].to = {s}
    /\ emitted'[1].data.code = code

\* The handler registered s under the trimmed nickname and told it so.
JoinAccepted(s, nickname) ==
    /\ \E i \in 1..Len(users') :
          users'[i].id = s /\ users'[i].nickname = Trim(nickname)
    /\ Len(emitted') >= 1
    /\ emitted'[1].event = "join-success"
    /\ emitted'[1].to = {s}

\* C1: in every reachable state no two active participants have nicknames
\* that are equal case-insensitively after trimming, and no socket id is
\* registered twice.
C1_UniqueNicknamesAndIds ==
    \A i, j \in 1..Len(users) :
        (SameNickname(users[i].nickname, users[j].nickname) \/ users[i].id = users[j].id)
            => i = j

\* Two participants are active, a message was sent, and a join under the
\* nickname of one of them, in another case, has just been refused.
C1_Witness ==
    /\ Len(users) = 2
    /\ nextId >= 1
    /\ last.op = "join-room"
    /\ Len(emitted) = 1
    /\ emitted[1].event = "error"
    /\ emitted[1].data.code = NICKNAME_TAKEN
    /\ \E i \in 1..Len(users) :
          /\ users[i].nickname # Trim(last.arg)
          /\ SameNickname(users[i].nickname, last.arg)

\* C2: a join, from any socket, whose trimmed nickname equals
\* case-insensitively a nickname an active participant holds is refused with
\* nickname-taken; a join with a valid nickname no active participant holds
\* (its holder has left) is accepted while the room is not full.
C2_TakenUntilHolderLeaves ==
    [][Handled("join-room") =>
          /\ HeldByActive(last'.arg) => JoinRefused(last'.id, NICKNAME_TAKEN)
          /\ (validateNickname(last'.arg) /\ ~HeldByActive(last'.arg)
                /\ Cardinality(ActiveUsers) < MAX_USERS)
              => JoinAccepted(last'.id, last'.arg)]_vars

\* A join is refused with nickname-taken while another socket holds the name.
C2_Witness ==
    /\ last.op = "join-room"
    /\ Len(emitted) = 1
    /\ emitted[1].event = "error"
    /\ emitted[1].data.code = NICKNAME_TAKEN
    /\ \E i \in 1..Len(users) :
          users[i].id # last.id /\ SameNickname(users[i].nickname, last.arg)

\* C3: a join with a valid nickname that duplicates no active one is
\* accepted if fewer than MAX_USERS participants are active and refused with
\* room-full otherwise; the number of participants never exceeds MAX_USERS.
C3_RoomFull ==
    /\ [](Len(users) <= MAX_USERS)
    /\ [][(Handled("join-room") /\ validateNickname(last'.arg)
              /\ ~HeldByActive(last'.arg))
          => IF Len(users) < MAX_USERS
             THEN JoinAccepted(last'.id, last'.arg)
             ELSE JoinRefused(last'.id, ROOM_FULL)]_vars

\* A join was refused with room-full, MAX_USERS participants being active.
C3_Witness ==
    /\ last.op = "join-room"
    /\ Len(emitted) = 1
    /\ emitted[1].event = "error"
    /\ emitted[1].data.code = ROOM_FULL
    /\ Len(users) = MAX_USERS

\* C4: the log never holds more than MAX_MESSAGES messages and evicts the
\* oldest first: after K appends it holds the last min(K, MAX_MESSAGES)
\* appended messages in the order of their appending, and
\* getRecentMessages(MAX_MESSAGES) returns them, oldest first.
C4_BoundedFifoLog ==
    /\ Len(messages) <= MAX_MESSAGES
    /\ Len(messages) = (IF nextId < MAX_MESSAGES THEN nextId ELSE MAX_MESSAGES)
    /\ \A i \in 1..Len(messages) : messages[i].id = nextId - Len(messages) + i
    /\ getRecentMessages(messages, MAX_MESSAGES) = messages

\* More messages were appended than the log holds, and the oldest are gone.
C4_Witness ==
    /\ nextId = MAX_MESSAGES + 2
    /\ Len(messages) = MAX_MESSAGES
    /\ messages[1].id = nextId - MAX_MESSAGES + 1

\* The entity sanitizeMessage writes for a character.
EntityOf(ch) ==
    CASE ch = 38 -> <<38, 97, 109, 112, 59>>
      [] ch = 60 -> <<38, 108, 116, 59>>
      [] ch = 62 -> <<38, 103, 116, 59>>
      [] ch = 34 -> <<38, 113, 117, 111, 116, 59>>
      [] ch = 39 -> <<38, 35, 120, 50, 55, 59>>
      [] ch = 47 -> <<38, 35, 120, 50, 70, 59>>

\* s with each character of special replaced by its entity and every other
\* character unchanged.
RECURSIVE EscapeEach(_, _)
EscapeEach(s, special) ==
    IF s = <<>> THEN <<>>
    ELSE (IF Head(s) \in special THEN EntityOf(Head(s)) ELSE <<Head(s)>>)
            \o EscapeEach(Tail(s), special)

\* The message a successful send has just appended is stored with its
\* trimmed text escaped for the characters of special, and
\* getRecentMessages(1) returns exactly that message.
StoredEscaped(special) ==
    (Handled("send-message") /\ nextId' = nextId + 1) =>
        LET stored == messages'[Len(messages')] IN
        /\ stored.id = nextId'
        /\ stored.message = EscapeEach(Trim(last'.arg), special)
        /\ getRecentMessages(messages', 1) = <<stored>>

\* C5 as claimed: exactly the five characters & < > " ' are replaced.
C5_FiveEscaped == [][StoredEscaped({38, 60, 62, 34, 39})]_vars

\* C5 as the code has it: the six characters & < > " ' / are replaced by
\* their entities, every other character is unchanged, and
\* getRecentMessages(1) returns the message just appended.
C5_SixEscaped == [][StoredEscaped({38, 60, 62, 34, 39, 47})]_vars

\* "<b>hi</b>" was sent and is stored as "&lt;b&gt;hi&lt;&#x2F;b&gt;".
C5_Witness ==
    /\ last.op = "send-message"
    /\ last.arg = BoldHi
    /\ Len(emitted) = 1
    /\ emitted[1].event = "receive-message"
    /\ getRecentMessages(messages, 1)[1].message =
          <<38, 108, 116, 59, 98, 38, 103, 116, 59, 104, 105,
            38, 108, 116, 59, 38, 35, 120, 50, 70, 59, 98, 38, 103, 116, 59>>

\* The acquisitions of s that are younger than the window at time t.
RecentAcquired(s, t) ==
    {i \in 1..Len(acquired[s]) : t - acquired[s][i] < RATE_LIMIT_WINDOW_MS}

\* C6: no socket acquires more than RATE_LIMIT_PER_SECOND times within any
\* window of one second; an attempt less than a second after the first of
\* the last RATE_LIMIT_PER_SECOND acquisitions is refused with
\* rate-limit-exceeded, one more than a second after it is granted.
C6_RateLimit ==
    /\ [](\A s \in Sockets : \A i \in 1..Len(acquired[s]) :
            i + RATE_LIMIT_PER_SECOND <= Len(acquired[s]) =>
                acquired[s][i + RATE_LIMIT_PER_SECOND] - acquired[s][i]
                    >= RATE_LIMIT_WINDOW_MS)
    /\ [][(Handled("send-message") /\ MapHas(users, last'.id)
              /\ Len(acquired[last'.id]) >= RATE_LIMIT_PER_SECOND) =>
            LET s == last'.id
                first == acquired[s][Len(acquired[s]) - RATE_LIMIT_PER_SECOND + 1]
            IN  /\ now - first < RATE_LIMIT_WINDOW_MS =>
                      /\ acquired' = acquired
                      /\ emitted' = << errorEvent(s, RATE_LIMIT_EXCEEDED) >>
                /\ now - first > RATE_LIMIT_WINDOW_MS =>
                      acquired'[s] = Append(acquired[s], now)]_vars

\* A socket acquired three times within a second and, more than a second
\* after the first of them, a fourth time.
C6_Witness ==
    \E s \in Sockets :
        /\ Len(acquired[s]) = RATE_LIMIT_PER_SECOND + 1
        /\ acquired[s][RATE_LIMIT_PER_SECOND] - acquired[s][1] < RATE_LIMIT_WINDOW_MS
        /\ acquired[s][RATE_LIMIT_PER_SECOND + 1] - acquired[s][1] > RATE_LIMIT_WINDOW_MS

\* The send of s passes the lookup, the rate limit and the validation.
SendPasses(s, message) ==
    /\ MapHas(users, s)
    /\ Cardinality(RecentAcquired(s, now)) < RATE_LIMIT_PER_SECOND
    /\ validateMessage(message)

\* C7: a send that passes lookup, rate limit and validation appends exactly
\* one message to the log and delivers that stored message (id, userId,
\* nickname, escaped text, timestamp) in one receive-message event to every
\* active participant, the sender included.
C7_SendBroadcast ==
    [][(Handled("send-message") /\ SendPasses(last'.id, last'.arg)) =>
          LET s == last'.id
              stored == messages'[Len(messages')]
          IN  /\ Len(messages') >= 1
              /\ \E k \in 0..Len(messages) :
                    SubSeq(messages', 1, Len(messages') - 1)
                        = SubSeq(messages, k + 1, Len(messages))
              /\ \A i \in 1..Len(messages) : messages[i].id # stored.id
              /\ stored.userId = s
              /\ stored.nickname = getUser(users, s).nickname
              /\ stored.message = sanitizeMessage(Trim(last'.arg))
              /\ stored.timestamp = now
              /\ Len(emitted') = 1
              /\ emitted'[1].event = "receive-message"
              /\ emitted'[1].data = stored
              /\ s \in emitted'[1].to
              /\ \A i \in ActiveUsers : users[i].id \in emitted'[1].to]_vars

\* A message was delivered while two participants were active.
C7_Witness ==
    /\ last.op = "send-message"
    /\ Len(emitted) = 1
    /\ emitted[1].event = "receive-message"
    /\ Len(messages) >= 1
    /\ emitted[1].data = messages[Len(messages)]
    /\ Len(users) = 2
    /\ \A i \in 1..Len(users) : users[i].id \in emitted[1].to

\* The join of s with this nickname meets the conditions of addUser.
JoinSucceeds(nickname) ==
    /\ validateNickname(nickname)
    /\ ~HeldByActive(nickname)
    /\ Len(users) < MAX_USERS

\* C8: a successful join emits, in this order, join-success to the joining
\* socket only, user-joined (nickname, timestamp) to every other connected
\* socket and not to the joiner, and update-users with the full list of
\* nicknames to every connected socket, the joiner included.
C8_JoinEventOrder ==
    [][(Handled("join-room") /\ JoinSucceeds(last'.arg)) =>
          LET s == last'.id IN
          /\ Len(emitted') = 3
          /\ emitted'[1].event = "join-success"
          /\ emitted'[1].to = {s}
          /\ emitted'[2].event = "user-joined"
          /\ emitted'[2].to = Connected \ {s}
          /\ emitted'[2].data = [nickname |-> Trim(last'.arg), timestamp |-> now]
          /\ emitted'[3].event = "update-users"
          /\ emitted'[3].to = Connected
          /\ s \in emitted'[3].to
          /\ emitted'[3].data.users = getAllNicknames(users')
          /\ \E i \in 1..Len(emitted'[3].data.users) :
                emitted'[3].data.users[i] = Trim(last'.arg)]_vars

\* A join succeeded while another socket was connected.
C8_Witness ==
    /\ last.op = "join-room"
    /\ Len(emitted) = 3
    /\ emitted[1].event = "join-success"
    /\ emitted[2].to # {}
    /\ last.id \notin emitted[2].to
    /\ last.id \in emitted[3].to

\* C9: the disconnect of an active participant removes it from the
\* registry and emits user-left with its nickname to the sockets still
\* connected, then update-users with a list that no longer holds the
\* nickname; a second disconnect of the same socket removes nothing and
\* emits nothing, no error either.
C9_DisconnectLeaves ==
    [][Handled("disconnect") =>
          LET s == last'.id IN
          /\ (sockets[s] = "open" /\ MapHas(users, s)) =>
                LET nickname == getUser(users, s).nickname IN
                /\ ~MapHas(users', s)
                /\ Len(users') = Len(users) - 1
                /\ Len(emitted') = 2
                /\ emitted'[1].event = "user-left"
                /\ emitted'[1].data.nickname = nickname
                /\ emitted'[1].to = Connected \ {s}
                /\ emitted'[2].event = "update-users"
                /\ emitted'[2].to = Connected \ {s}
                /\ emitted'[2].data.users = getAllNicknames(users')
                /\ \A i \in 1..Len(emitted'[2].data.users) :
                      emitted'[2].data.users[i] # nickname
          /\ sockets[s] = "closed" =>
                /\ users' = users
                /\ emitted' = <<>>]_vars

\* A participant has left and the sockets still connected, one of them a
\* participant, were told.
C9_Witness ==
    /\ last.op = "disconnect"
    /\ last.was = "open"
    /\ Len(emitted) = 2
    /\ emitted[1].event = "user-left"
    /\ emitted[1].to # {}
    /\ Len(users) >= 1

\* C10: the disconnect of a socket that has not joined leaves the registry
\* and the log unchanged and emits neither user-left nor update-users.
C10_DisconnectWithoutJoin ==
    [][(Handled("disconnect") /\ sockets[last'.id] = "open"
            /\ ~MapHas(users, last'.id)) =>
          /\ users' = users
          /\ messages' = messages
          /\ \A i \in 1..Len(emitted') :
                emitted'[i].event \notin {"user-left", "update-users"}]_vars

\* A connected socket that never joined was disconnected while a
\* participant was active and the log held a message.
C10_Witness ==
    /\ last.op = "disconnect"
    /\ last.was = "open"
    /\ emitted = <<>>
    /\ Len(users) >= 1
    /\ Len(messages) >= 1
    /\ \A i \in 1..Len(messages) : messages[i].userId # last.id

\* The list without the nickname m.
WithoutNickname(list, m) ==
    LET Other(x) == x # m IN SelectSeq(list, Other)

\* An accepted join puts the joiner's nickname last in the list of
\* nicknames (taking out the nickname its socket had), the disconnect of a
\* participant takes its nickname out, and no other step changes the list.
ListFollowsJoins ==
    LET before == getAllNicknames(users)
        after == getAllNicknames(users')
        s == last'.id
        had == getUser(users, s).nickname
    IN  IF Handled("join-room") /\ Len(emitted') = 3
        THEN after = Append(IF MapHas(users, s) THEN WithoutNickname(before, had)
                            ELSE before,
                            Trim(last'.arg))
        ELSE IF Handled("disconnect") /\ MapHas(users, s)
        THEN after = WithoutNickname(before, had)
        ELSE after = before

\* The list of nicknames names the registered participants, each once, and
\* each of them is connected.
ListNamesActive ==
    LET list == getAllNicknames(users) IN
    /\ Len(list) = Len(users)
    /\ \A i \in 1..Len(users) :
          /\ sockets[users[i].id] = "open"
          /\ Cardinality({k \in 1..Len(list) : list[k] = users[i].nickname}) = 1

\* C11: getAllNicknames returns the nicknames of exactly the active
\* participants, in the order in which their joins succeeded: an accepted
\* join puts the joiner last, a leave takes the leaver out, and nothing else
\* changes the list.
C11_ListInJoinOrder ==
    /\ []ListNamesActive
    /\ [][ListFollowsJoins]_vars

\* C12: a join that fails (nickname invalid, held by an active participant,
\* or room full) emits exactly one event, an error with one of the three
\* join codes, to the joining socket only; the registry, the log, the
\* rate-limit map and the state of every socket stay as they were.
C12_FailedJoin ==
    [][(Handled("join-room") /\ ~JoinSucceeds(last'.arg)) =>
          /\ Len(emitted') = 1
          /\ emitted'[1].event = "error"
          /\ emitted'[1].to = {last'.id}
          /\ emitted'[1].data.code \in {INVALID_NICKNAME, NICKNAME_TAKEN, ROOM_FULL}
          /\ users' = users
          /\ messages' = messages
          /\ rateLimitMap' = rateLimitMap
          /\ sockets' = sockets]_vars

\* The join of an anonymous socket was refused while the room was full and
\* other sockets were connected.
C12_Witness ==
    /\ last.op = "join-room"
    /\ ~MapHas(users, last.id)
    /\ Len(emitted) = 1
    /\ emitted[1].event = "error"
    /\ emitted[1].data.code = ROOM_FULL
    /\ Len(users) = MAX_USERS
    /\ Connected \ {last.id} # {}

\* C13: a send from a connected socket that has no registered participant
\* is answered with one connection-error event to that socket only; no
\* message is appended, no uuid is drawn, no rate-limit timestamp is
\* recorded and the registry is unchanged.
C13_SendWithoutJoin ==
    [][(Handled("send-message") /\ ~MapHas(users, last'.id)) =>
          /\ emitted' = << errorEvent(last'.id, CONNECTION_ERROR) >>
          /\ emitted'[1].to = {last'.id}
          /\ messages' = messages
          /\ nextId' = nextId
          /\ rateLimitMap' = rateLimitMap
          /\ acquired' = acquired
          /\ users' = users]_vars

\* A socket that never joined sent a valid text while a participant was
\* active and the log held a message, and was answered connection-error.
C13_Witness ==
    /\ last.op = "send-message"
    /\ validateMessage(last.arg)
    /\ ~MapHas(users, last.id)
    /\ Len(emitted) = 1
    /\ emitted[1].event = "error"
    /\ emitted[1].data.code = CONNECTION_ERROR
    /\ Len(users) >= 1
    /\ Len(messages) >= 1
    /\ \A i \in 1..Len(messages) : messages[i].userId # last.id

\* C14: every error event a handler emits goes to the socket whose join or
\* send the handler processed, and to no other socket.
C14_ErrorToOriginOnly ==
    \A i \in 1..Len(emitted) :
        emitted[i].event = "error" =>
            /\ last.op \in {"join-room", "send-message"}
            /\ emitted[i].to = {last.id}

\* A send was answered with an error while another socket was connected.
C14_Witness ==
    /\ last.op = "send-message"
    /\ Len(emitted) = 1
    /\ emitted[1].event = "error"
    /\ emitted[1].to = {last.id}
    /\ Connected \ {last.id} # {}
    /\ Len(users) >= 1

\* The handler that ran last answered with nothing but an error event.
AnsweredError ==
    /\ last.op \in {"join-room", "send-message"}
    /\ Len(emitted) = 1
    /\ emitted[1].event = "error"

\* C15: a join or send that raises a fault, a missing payload or a field
\* that is no string included, is answered with exactly one error event to
\* the socket it came from and leaves the sockets, the registry and the log
\* as they were; the join, send or disconnect of another socket that comes
\* next is processed and broadcast as usual.
C15_FaultsCaught ==
    /\ [][((Handled("join-room")
               /\ (~IsString(last'.arg) \/ ~JoinSucceeds(last'.arg)))
           \/ (Handled("send-message")
               /\ (~IsString(last'.arg) \/ ~SendPasses(last'.id, last'.arg))))
          => /\ Len(emitted') = 1
             /\ emitted'[1].event = "error"
             /\ emitted'[1].to = {last'.id}
             /\ sockets' = sockets
             /\ users' = users
             /\ messages' = messages]_vars
    /\ [][(AnsweredError /\ last'.id # last.id) =>
            /\ (Handled("join-room") /\ JoinSucceeds(last'.arg))
                  => (Len(emitted') = 3 /\ MapHas(users', last'.id))
            /\ (Handled("send-message") /\ SendPasses(last'.id, last'.arg))
                  => (Len(emitted') = 1 /\ emitted'[1].event = "receive-message"
                        /\ Len(messages') >= 1 /\ emitted'[1].to = Connected)
            /\ (Handled("disconnect") /\ MapHas(users, last'.id))
                  => (Len(emitted') = 2 /\ emitted'[1].event = "user-left")]_vars

\* An event without payload was answered with an error while the other
\* socket was a participant and the log held a message.
C15_Witness ==
    /\ AnsweredError
    /\ last.arg = MissingData
    /\ emitted[1].to = {last.id}
    /\ Len(messages) >= 1
    /\ \E i \in 1..Len(users) : users[i].id # last.id

\* The codes of ErrorCodes.
ErrorCodeSet ==
    {NICKNAME_TAKEN, INVALID_NICKNAME, ROOM_FULL, INVALID_MESSAGE,
     RATE_LIMIT_EXCEEDED, SERVER_ERROR, CONNECTION_ERROR}

\* C16: every error event carries one of the seven codes of ErrorCodes, and
\* a fault that is none of the six errors the handlers throw themselves is
\* reported as server-error with the text of server-error, never with the
\* text of the fault.
C16_ClosedErrorCodes ==
    \A i \in 1..Len(emitted) :
        emitted[i].event = "error" =>
            /\ emitted[i].data.code \in ErrorCodeSet
            /\ (last.arg = MissingData /\ emitted[i].data.code # CONNECTION_ERROR
                    /\ emitted[i].data.code # RATE_LIMIT_EXCEEDED)
                  => /\ emitted[i].data.code = SERVER_ERROR
                     /\ emitted[i].data.message = getErrorMessage(SERVER_ERROR)

\* The authors and texts of the messages of a log.
AuthorsAndTexts(log, Author(_)) ==
    [i \in 1..Len(log) |-> <<Author(log[i]), log[i].message>>]

\* C18: the polling interface accepts and rejects the same joins and sends
\* as the socket handlers and shows the same participants and the same
\* messages: after every operation given to both, the last response of the
\* polling interface is a success exactly when the handler answered without
\* an error, GET users returns getAllNicknames, and GET messages returns
\* the authors and texts of the log.
C18_PollingEquivalent ==
    LET SocketAuthor(msg) == msg.nickname
        PollAuthor(msg) == msg.user
    IN  /\ last.op \in {"join-room", "send-message"} =>
              ((api.status = 200) <=> ~AnsweredError)
        /\ getUsers(api) = getAllNicknames(users)
        /\ AuthorsAndTexts(getMessagesSince(api, -1), PollAuthor)
              = AuthorsAndTexts(messages, SocketAuthor)

\* io.close() has been called: the sockets that had not connected never will.
ServerClosed == \E s \in Sockets : sockets[s] = "refused"

\* C19: close() leaves the registry, the log and the rate-limit map empty
\* and no socket connected, whatever they held before; a disconnect handler
\* that runs after close() emits nothing and leaves the three empty.
C19_CloseClearsAll ==
    /\ [][Handled("close") =>
            /\ users' = <<>>
            /\ messages' = <<>>
            /\ DOMAIN rateLimitMap' = {}
            /\ Connected' = {}]_vars
    /\ [][(ServerClosed /\ Handled("disconnect")) =>
            /\ emitted' = <<>>
            /\ users' = <<>>
            /\ messages' = <<>>
            /\ DOMAIN rateLimitMap' = {}]_vars

\* Messages had been stored, the server was closed, and a disconnect
\* handler has run afterwards: the log is empty and nothing was emitted.
C19_Witness ==
    /\ ServerClosed
    /\ last.op = "disconnect"
    /\ nextId >= 1
    /\ messages = <<>>
    /\ users = <<>>
    /\ DOMAIN rateLimitMap = {}
    /\ emitted = <<>>

\* C20: a join handled for a connection that is already Active (it has a
\* registered participant) leaves that participant's nickname and joinedAt
\* as they are and emits neither join-success nor user-joined.
C20_JoinOnlyFromAnonymous ==
    [][(Handled("join-room") /\ MapHas(users, last'.id)) =>
          /\ getUser(users', last'.id) = getUser(users, last'.id)
          /\ \A i \in 1..Len(emitted') :
                emitted'[i].event \notin {"join-success", "user-joined"}]_vars

\* What the clients had been told before the i-th event of the handler that
\* runs in this step.
HeardBefore(i) == Heard(heard, SubSeq(emitted', 1, i - 1))

\* C21: over any execution, user-joined and user-left for one nickname
\* alternate, starting with user-joined, and a nickname an update-users
\* list has shown is missing from a later list only if a user-left for it
\* was broadcast in between.
C21_ConsistentNotifications ==
    [][\A i \in 1..Len(emitted') :
          /\ emitted'[i].event = "user-joined"
                => emitted'[i].data.nickname \notin HeardBefore(i).announced
          /\ emitted'[i].event = "user-left"
                => emitted'[i].data.nickname \in HeardBefore(i).announced
          /\ emitted'[i].event = "update-users"
                => HeardBefore(i).listed \subseteq Range(emitted'[i].data.users)]_vars

\* The sockets that have completed a join and not left.
Registered == {users[i].id : i \in 1..Len(users)}

\* C22: receive-message, user-joined, user-left and update-users reach only
\* connections that have completed a join; a connection that is connected
\* without a participant receives none of them.
C22_FanOutToActiveOnly ==
    \A i \in 1..Len(emitted) :
        emitted[i].event \in {"receive-message", "user-joined", "user-left", "update-users"}
            => emitted[i].to \subseteq Registered

\* The place of the message with this id in the log, 0 when it is not there.
PlaceInLog(id) ==
    IF \E p \in 1..Len(messages) : messages[p].id = id
    THEN CHOOSE p \in 1..Len(messages) : messages[p].id = id
    ELSE 0

\* C23: a handler runs to its end before the next inbound event is taken,
\* so any two messages delivered to two connections reach both in the same
\* relative order, and that order is the order in which the log took them
\* (the order of their uuids being drawn, and their order in the log while
\* both are kept).
C23_SameOrderEverywhere ==
    \A a, b \in Sockets :
        \A i, j \in 1..Len(heard.inbox[a]) :
            i < j =>
                /\ heard.inbox[a][i] < heard.inbox[a][j]
                /\ (PlaceInLog(heard.inbox[a][i]) # 0 /\ PlaceInLog(heard.inbox[a][j]) # 0)
                      => PlaceInLog(heard.inbox[a][i]) < PlaceInLog(heard.inbox[a][j])
                /\ \A k, l \in 1..Len(heard.inbox[b]) :
                      (heard.inbox[a][i] = heard.inbox[b][k]
                          /\ heard.inbox[a][j] = heard.inbox[b][l]) => k < l

\* Two messages sent by different participants were delivered to both
\* connections and are both in the log.
C23_Witness ==
    /\ Len(heard.inbox["s1"]) >= 2
    /\ heard.inbox["s2"] = heard.inbox["s1"]
    /\ Len(messages) >= 2
    /\ messages[1].userId # messages[2].userId
    /\ PlaceInLog(heard.inbox["s1"][1]) # 0
    /\ PlaceInLog(heard.inbox["s1"][2]) # 0

\* A body as the claims describe a valid one: 1 to 500 characters after
\* trimming, and no control character other than tab, line feed and
\* carriage return anywhere in it.
ValidBody(message) ==
    /\ Len(Trim(message)) >= 1
    /\ Len(Trim(message)) <= 500
    /\ \A i \in 1..Len(message) :
          message[i] \notin ((0..8) \cup {11, 12} \cup (14..31) \cup {127})

\* The handler answered with this error and nothing else.
OnlyError(s, code) ==
    /\ Len(emitted') = 1
    /\ emitted'[1].event = "error"
    /\ emitted'[1].to = {s}
    /\ emitted'[1].data.code = code

\* C24: a send is checked in the order lookup, rate limit, body, and only
\* the first failure is reported: without a participant the answer is
\* connection-error whatever the body; from a participant over the rate
\* limit it is rate-limit-exceeded even when the body is invalid; an invalid
\* body is reported only when the first two checks pass.
C24_SendCheckOrder ==
    [][Handled("send-message") =>
          LET s == last'.id
              over == Cardinality(RecentAcquired(s, now)) >= RATE_LIMIT_PER_SECOND
          IN  /\ ~MapHas(users, s) => OnlyError(s, CONNECTION_ERROR)
              /\ (MapHas(users, s) /\ over) => OnlyError(s, RATE_LIMIT_EXCEEDED)
              /\ (MapHas(users, s) /\ ~over /\ ~ValidBody(last'.arg))
                    => OnlyError(s, INVALID_MESSAGE)]_vars

\* A participant over the rate limit sent an invalid body and was told
\* rate-limit-exceeded.
C24_Witness ==
    /\ last.op = "send-message"
    /\ MapHas(users, last.id)
    /\ ~ValidBody(last.arg)
    /\ Cardinality(RecentAcquired(last.id, now)) >= RATE_LIMIT_PER_SECOND
    /\ Len(emitted) = 1
    /\ emitted[1].event = "error"
    /\ emitted[1].data.code = RATE_LIMIT_EXCEEDED

\* C25: a join reports the first failure in the order invalid-nickname,
\* nickname-taken, room-full: an invalid nickname is always answered with
\* invalid-nickname, and a valid nickname that a participant holds with
\* nickname-taken even when the room is full; room-full is the answer only
\* to a valid nickname that nobody holds.
C25_JoinErrorPrecedence ==
    [][Handled("join-room") =>
          LET s == last'.id
              nickname == last'.arg
              held == \E i \in 1..Len(users) : SameNickname(users[i].nickname, nickname)
          IN  /\ ~validateNickname(nickname) => OnlyError(s, INVALID_NICKNAME)
              /\ (validateNickname(nickname) /\ held) => OnlyError(s, NICKNAME_TAKEN)
              /\ (validateNickname(nickname) /\ ~held /\ Len(users) >= MAX_USERS)
                    => OnlyError(s, ROOM_FULL)]_vars

\* The room is full and a socket without a participant asked for a nickname
\* another socket holds in another spelling: it was told nickname-taken.
C25_Witness ==
    /\ last.op = "join-room"
    /\ Len(users) = MAX_USERS
    /\ ~MapHas(users, last.id)
    /\ \E i \in 1..Len(users) :
          /\ users[i].nickname # Trim(last.arg)
          /\ SameNickname(users[i].nickname, last.arg)
    /\ Len(emitted) = 1
    /\ emitted[1].event = "error"
    /\ emitted[1].data.code = NICKNAME_TAKEN

\* C26: addMessage takes a body exactly when its trimmed length is 1 to
\* MESSAGE_MAX_LENGTH and it holds no control character other than tab, line
\* feed and carriage return; otherwise the sender is told invalid-message,
\* the log stays as it is and no receive-message is emitted.
C26_BodyValidation ==
    [][(Handled("send-message") /\ MapHas(users, last'.id)
            /\ Cardinality(RecentAcquired(last'.id, now)) < RATE_LIMIT_PER_SECOND) =>
          IF ValidBody(last'.arg)
          THEN /\ nextId' = nextId + 1
               /\ Len(messages') >= 1
               /\ messages'[Len(messages')].id = nextId'
               /\ messages'[Len(messages')].message = sanitizeMessage(Trim(last'.arg))
               /\ Len(emitted') = 1
               /\ emitted'[1].event = "receive-message"
          ELSE /\ OnlyError(last'.id, INVALID_MESSAGE)
               /\ messages' = messages
               /\ nextId' = nextId]_vars

\* The log ends with a body of MESSAGE_MAX_LENGTH letters that came between
\* two spaces, and a body one letter longer has just been refused.
C26_Witness ==
    /\ last.op = "send-message"
    /\ Len(Trim(last.arg)) = MESSAGE_MAX_LENGTH + 1
    /\ Len(emitted) = 1
    /\ emitted[1].event = "error"
    /\ emitted[1].data.code = INVALID_MESSAGE
    /\ Len(messages) >= 1
    /\ Len(messages[Len(messages)].message) = MESSAGE_MAX_LENGTH

\* The window recorded for s holds granted attempts only: it is the end of
\* the history of the times at which checkRateLimit returned true for s.
WindowOfGrants(s) ==
    LET window == rateLimitMap[s]
        grants == acquired[s]
    IN  /\ Len(window) <= Len(grants)
        /\ window = SubSeq(grants, Len(grants) - Len(window) + 1, Len(grants))

\* C27: a refused attempt is not recorded: it leaves the window of the
\* connection as it was, every recorded time is the time of a granted
\* attempt, and whenever fewer than RATE_LIMIT_PER_SECOND recorded times are
\* younger than a second the attempt is granted and recorded, however many
\* attempts were refused before.
C27_RefusedNotRecorded ==
    /\ [](\A s \in DOMAIN rateLimitMap : WindowOfGrants(s))
    /\ [][(Handled("send-message") /\ MapHas(users, last'.id)) =>
            LET s == last'.id
                young == Cardinality(RecentAcquired(s, now))
            IN  /\ young >= RATE_LIMIT_PER_SECOND =>
                      /\ OnlyError(s, RATE_LIMIT_EXCEEDED)
                      /\ rateLimitMap' = rateLimitMap
                      /\ acquired' = acquired
                /\ young < RATE_LIMIT_PER_SECOND =>
                      /\ ~OnlyError(s, RATE_LIMIT_EXCEEDED)
                      /\ acquired'[s] = Append(acquired[s], now)
                      /\ Len(rateLimitMap'[s]) = young + 1
                      /\ rateLimitMap'[s][young + 1] = now]_vars

\* An attempt was refused at a time later than every recorded time, and the
\* window still holds the three granted attempts only.
C27_Witness ==
    /\ last.op = "send-message"
    /\ Len(emitted) = 1
    /\ emitted[1].event = "error"
    /\ emitted[1].data.code = RATE_LIMIT_EXCEEDED
    /\ last.id \in DOMAIN rateLimitMap
    /\ Len(rateLimitMap[last.id]) = RATE_LIMIT_PER_SECOND
    /\ \A i \in 1..Len(rateLimitMap[last.id]) : rateLimitMap[last.id][i] < now

\* C28: only live connections have a rate-limit window: in every reachable
\* state the socket ids of rateLimitMap are ids of connected sockets, and the
\* disconnect handler leaves no window for its socket.
C28_WindowsOfLiveSockets ==
    /\ [](DOMAIN rateLimitMap \subseteq Connected)
    /\ [][Handled("disconnect") => last'.id \notin DOMAIN rateLimitMap']_vars

\* A participant that had sent a message has disconnected; another
\* participant has sent a message since, and only that one has a window.
C28_Witness ==
    /\ last.op = "send-message"
    /\ Len(emitted) = 1
    /\ emitted[1].event = "receive-message"
    /\ Len(messages) = 2
    /\ messages[1].userId # last.id
    /\ sockets[messages[1].userId] = "closed"
    /\ DOMAIN rateLimitMap = {last.id}
    /\ rateLimitMap[last.id] # <<>>

LimitInputs == (0 - 2)..(MAX_MESSAGES + 1)

\* The last count elements of a sequence, in its order.
LastOf(seq, count) == [k \in 1..count |-> seq[Len(seq) - count + k]]

\* C30: for every log and every integer limit, getRecentMessages(limit)
\* returns the last min(max(limit, 1), size) messages of the log, oldest
\* first; on an empty log it returns the empty sequence.
C30_RecentMessages ==
    \A limit \in LimitInputs :
        LET size == Len(messages)
            atLeastOne == IF limit < 1 THEN 1 ELSE limit
            count == IF atLeastOne < size THEN atLeastOne ELSE size
        IN  /\ getRecentMessages(messages, limit) = LastOf(messages, count)
            /\ size = 0 => getRecentMessages(messages, limit) = <<>>

\* The log is full and has evicted: a limit of 0 or less returns the newest
\* message alone, a limit above the size the whole log.
C30_Witness ==
    /\ Len(messages) = MAX_MESSAGES
    /\ nextId > MAX_MESSAGES
    /\ getRecentMessages(messages, 0) = << messages[Len(messages)] >>
    /\ getRecentMessages(messages, 0 - 2) = << messages[Len(messages)] >>
    /\ getRecentMessages(messages, MAX_MESSAGES + 1) = messages
    /\ messages[1].id < messages[Len(messages)].id

\* The terms searched for: "hi", "HI", "al", "lt", "zz", a blank and "".
TermInputs ==
    { <<104, 105>>, <<72, 73>>, <<97, 108>>, <<108, 116>>, <<122, 122>>, <<32>>, <<>> }

\* A sequence back to front.
Reverse(seq) == [k \in 1..Len(seq) |-> seq[Len(seq) - k + 1]]

\* The messages of the log whose body or nickname contains the term,
\* whatever the case of the letters, in log order.
Matching(term) ==
    LET Found(msg) == \/ Includes(ToLowerCase(msg.message), ToLowerCase(term))
                      \/ Includes(ToLowerCase(msg.nickname), ToLowerCase(term))
    IN  SelectSeq(messages, Found)

\* C31: searchMessages(term, limit) returns the messages whose body or
\* nickname contains the term case-insensitively, the most recent first, and
\* of these the limit most recent ones; an empty or blank term returns the
\* empty sequence.
C31_SearchMostRecentFirst ==
    \A term \in TermInputs : \A limit \in 1..(MAX_MESSAGES + 1) :
        LET found == Matching(term)
            count == IF limit < Len(found) THEN limit ELSE Len(found)
        IN  searchMessages(messages, term, limit) =
                IF Trim(term) = <<>> THEN <<>>
                ELSE Reverse(LastOf(found, count))

\* The step is the answer of the polling interface to a request with this
\* action.
ApiHandled(action) == now' = now /\ api'.request.action = action

\* C32: GET messages returns exactly the stored messages whose timestamp is
\* greater than since, in the order of the log: none stamped since itself,
\* every later one; without a since value it returns every stored message.
C32_MessagesSince ==
    api.request.action = "messages" =>
        LET since == api.request.since IN
        /\ \A t \in {0, TickMs, 2 * TickMs} :
              since = DecimalString(t) =>
                  LET Later(msg) == msg.timestamp > t
                  IN  api.sent = SelectSeq(api.messages, Later)
        /\ since \in {MissingField, <<>>} => api.sent = api.messages

\* Messages stamped TickMs and 2 * TickMs are stored and the messages since
\* TickMs were asked for: only the later one was returned.
C32_Witness ==
    /\ api.request.action = "messages"
    /\ api.request.since = DecimalString(TickMs)
    /\ Len(api.messages) = 2
    /\ api.messages[1].timestamp = TickMs
    /\ api.messages[2].timestamp = 2 * TickMs
    /\ api.sent = << api.messages[2] >>

\* C36: a message post to the polling interface from a user name that is
\* not in the joined set (never joined, or joined and left) is rejected and
\* stores nothing.
C36_PostOnlyFromJoined ==
    [][(ApiHandled("message") /\ ~SetHas(api.users, api'.request.user)) =>
           (api'.status # 200 /\ api'.messages = api.messages)]_vars

\* C33: a disconnect leaves the message log exactly as it was, the messages
\* of the departed participant included.
C33_DisconnectKeepsLog ==
    [][Handled("disconnect") => messages' = messages]_vars

\* A participant whose message is in the log has disconnected and is off
\* the registry; the message is still there.
C33_Witness ==
    /\ last.op = "disconnect"
    /\ getUser(users, last.id) = NoUser
    /\ \E i \in 1..Len(messages) : messages[i].userId = last.id

\* C34: stored messages are immutable. A connection, a join (which reads
\* the recent messages, looks the user up and lists the nicknames) or a
\* disconnect leaves the log as it was, and in every step a message that
\* is in the log before and after has the same id, sender, nickname, body
\* and timestamp.
C34_StoredMessagesImmutable ==
    [][/\ (Handled("connection") \/ Handled("join-room") \/ Handled("disconnect"))
             => messages' = messages
       /\ \A i \in 1..Len(messages) : \A j \in 1..Len(messages') :
             messages[i].id = messages'[j].id => messages[i] = messages'[j]]_vars

\* The log is full and has evicted its first message; the message now in
\* front has been there through a later append and a disconnect.
C34_Witness ==
    /\ last.op = "disconnect"
    /\ Len(messages) = MAX_MESSAGES
    /\ messages[1].id > 1
    /\ messages[Len(messages)].id > messages[1].id

\* C35: every message enters the log with the connection id of its sender
\* as userId and with the nickname the sender is registered under at the
\* moment of the send, and keeps both as long as it is stored.
C35_MessageCarriesSender ==
    [][\A j \in 1..Len(messages') :
          \/ \E i \in 1..Len(messages) : messages[i] = messages'[j]
          \/ /\ Handled("send-message")
             /\ messages'[j].userId = last'.id
             /\ MapHas(users, last'.id)
             /\ messages'[j].nickname = MapGet(users, last'.id).nickname]_vars

\* "Al" on one connection and "Bo" on the other have each sent a message.
C35_Witness ==
    /\ Len(messages) = 2
    /\ messages[1].userId # messages[2].userId
    /\ messages[1].nickname = <<65, 108>>
    /\ messages[2].nickname = <<66, 111>>
    /\ last.op = "send-message"

\* The six entities sanitizeMessage writes.
Entities ==
    { <<38, 97, 109, 112, 59>>, <<38, 108, 116, 59>>, <<38, 103, 116, 59>>,
      <<38, 113, 117, 111, 116, 59>>, <<38, 35, 120, 50, 55, 59>>,
      <<38, 35, 120, 50, 70, 59>> }

\* The body has between 1 and MESSAGE_MAX_LENGTH characters.
LengthInRange(body) == Len(body) >= MESSAGE_MIN_LENGTH /\ Len(body) <= MESSAGE_MAX_LENGTH

\* The body has no control character (U+0000 to U+001F, U+007F) other than
\* tab and line feed.
NoControlButTabAndNewline(body) ==
    \A k \in 1..Len(body) : (body[k] < 32 \/ body[k] = 127) => body[k] \in {9, 10}

\* The body is in escaped form: none of < > " ' / and every & starting one
\* of the entities.
Escaped(body) ==
    \A k \in 1..Len(body) :
        /\ body[k] \notin {60, 62, 34, 39, 47}
        /\ body[k] = 38 =>
              \E entity \in Entities : SubSeq(body, k, k + Len(entity) - 1) = entity

\* The bodies in the log and in the receive-message events just emitted.
Bodies ==
    {messages[i].message : i \in 1..Len(messages)}
        \cup {emitted[i].data.message :
                 i \in {k \in 1..Len(emitted) : emitted[k].event = "receive-message"}}

\* C37: every body stored in the log or broadcast has between 1 and 500
\* characters, no control character other than newline and tab, and is
\* HTML-escaped.
C37_StoredBodies ==
    \A body \in Bodies :
        LengthInRange(body) /\ NoControlButTabAndNewline(body) /\ Escaped(body)

\* C38: after every join and every disconnect, once the registry has
\* changed (in this step, or earlier so that a list has been broadcast),
\* the list of the last update-users event is getAllNicknames() of the
\* registry as it now is.
C38_LatestListIsCurrent ==
    [][(Handled("join-room") \/ Handled("disconnect")) =>
           ((users' # users \/ heard.latest # NoList) =>
                heard'.latest = getAllNicknames(users'))]_vars

\* "Al" and "Bo" had joined and one of them has disconnected: the last list
\* names the one who stayed.
C38_Witness ==
    /\ last.op = "disconnect"
    /\ Len(users) = 1
    /\ heard.latest = << users[1].nickname >>
    /\ emitted # <<>>

\* C39: a send answered with invalid-message has recorded its time in the
\* window of the sender: the window holds the times younger than a second
\* and, last, the time of the send; and a valid send from a participant
\* whom no message was ever stored for, RATE_LIMIT_PER_SECOND of whose sends
\* (all of them invalid, then) are younger than a second, is refused with
\* rate-limit-exceeded and stores nothing.
C39_InvalidSendsCount ==
    [][Handled("send-message") =>
          LET s == last'.id IN
          /\ OnlyError(s, INVALID_MESSAGE) =>
                /\ s \in DOMAIN rateLimitMap'
                /\ Len(rateLimitMap'[s]) >= 1
                /\ rateLimitMap'[s][Len(rateLimitMap'[s])] = now
                /\ Len(rateLimitMap'[s])
                      = 1 + Cardinality({i \in 1..Len(timestampsOf(rateLimitMap, s)) :
                                 now - rateLimitMap[s][i] < RATE_LIMIT_WINDOW_MS})
          /\ (/\ MapHas(users, s)
              /\ ValidBody(last'.arg)
              /\ nextId = 0
              /\ Cardinality(RecentAcquired(s, now)) >= RATE_LIMIT_PER_SECOND) =>
                /\ OnlyError(s, RATE_LIMIT_EXCEEDED)
                /\ messages' = messages]_vars

\* After three sends of "" within a second, the only sends so far, the
\* send of " hi " by the same participant was refused with
\* rate-limit-exceeded.
C39_Witness ==
    /\ last.op = "send-message"
    /\ last.arg = <<32, 104, 105, 32>>
    /\ nextId = 0
    /\ Len(acquired[last.id]) = RATE_LIMIT_PER_SECOND
    /\ Cardinality(RecentAcquired(last.id, now)) = RATE_LIMIT_PER_SECOND
    /\ Len(emitted) = 1
    /\ emitted[1].event = "error"
    /\ emitted[1].data.code = RATE_LIMIT_EXCEEDED

\* The timestamps of s in rateLimitMap that are younger than the window.
YoungInWindow(s) ==
    IF s \in DOMAIN rateLimitMap
    THEN {i \in 1..Len(rateLimitMap[s]) : now - rateLimitMap[s][i] < RATE_LIMIT_WINDOW_MS}
    ELSE {}

\* C40: rate limiting is isolated per connection. No connection, join, send
\* or disconnect of one socket changes the window of another socket, and
\* the send of a participant is refused with rate-limit-exceeded exactly
\* when RATE_LIMIT_PER_SECOND timestamps of its own window are younger than
\* a second at the time of the send.
C40_RateLimitPerConnection ==
    [][/\ \A s \in Sockets :
             last'.id # s =>
                 /\ (s \in DOMAIN rateLimitMap') = (s \in DOMAIN rateLimitMap)
                 /\ s \in DOMAIN rateLimitMap => rateLimitMap'[s] = rateLimitMap[s]
       /\ (Handled("send-message") /\ MapHas(users, last'.id)) =>
             (OnlyError(last'.id, RATE_LIMIT_EXCEEDED)
                 <=> Cardinality(YoungInWindow(last'.id)) >= RATE_LIMIT_PER_SECOND)]_vars

\* One participant has used up its window and the send of the other, at
\* the same time, was delivered.
C40_Witness ==
    /\ last.op = "send-message"
    /\ Len(emitted) = 1
    /\ emitted[1].event = "receive-message"
    /\ \E s \in Sockets \ {last.id} :
          /\ MapHas(users, s)
          /\ Cardinality(YoungInWindow(s)) = RATE_LIMIT_PER_SECOND
    /\ Cardinality(YoungInWindow(last.id)) = 1

====
